---- MODULE Spec2Model ----
(***************************************************************************)
(* A model of PySQL's DataManager (src/PySQL/DataManager.py).              *)
(*                                                                         *)
(* Two parts share this module:                                            *)
(*   - the statistics engine (the static methods                           *)
(*     _initialize_results_dict, get_categorical_var_analysis,             *)
(*     get_numerical_column_stats, get_numerical_var_analysis), modelled   *)
(*     as operators over a small dataframe and applied by the actions of   *)
(*     SpecStats and SpecNum;                                              *)
(*   - the store gateway (_create_table, create_and_fill_table,            *)
(*     get_column_names, get_table) over one psycopg2 connection,          *)
(*     modelled as the state machine SpecGateway.                          *)
(***************************************************************************)
EXTENDS Integers, Sequences, FiniteSets, TLC

VARIABLES
    \* ---- statistics engine ----
    df,         \* the dataframe handed to the static method: column name -> cells
    group,      \* the "group" argument (None or a column name)
    call,       \* which static method ran last
    results,    \* the results dictionary as it stood when the method stopped
    converted,  \* TRUE iff the method reached DataFrame(results)
    out,        \* what the method gave back: a summary table or the exception
    prev,       \* the summary of the dataframe before its rows were permuted
    \* ---- store gateway ----
    txn,        \* state of the connection's transaction
    db,         \* committed content of the schema: table name -> table
    temp,       \* TRUE iff the file "temp" exists in the working directory
    last,       \* the last public gateway call and how it ended
    src         \* table name -> dataframe given to a create_and_fill_table call

statsVars == <<df, group, call, results, converted, out, prev>>
gwVars == <<txn, db, temp, last, src>>
vars == <<df, group, call, results, converted, out, prev, txn, db, temp, last, src>>

-----------------------------------------------------------------------------
(* Bounds of the model *)

MaxRows == 3

-----------------------------------------------------------------------------
(* Python values held by dataframe cells *)

PyInt(n) == [t |-> "int", n |-> n, s |-> ""]
PyStr(s) == [t |-> "str", n |-> 0, s |-> s]
NA == [t |-> "nan", n |-> 0, s |-> ""]

IsNA(v) == v.t = "nan"

\* Python's None for the optional "group" argument; no column bears this name
None == "<None>"

\* Class constants
VAR_NAME == "Variable Name"
ALL == "All"

\* df.columns of the dataframes of the model, in order
Columns == <<"Variable", "X">>
ColSet == {Columns[i] : i \in 1..Len(Columns)}

\* The cells a column may hold
CellsOf(c) ==
    IF c = "Variable"
    THEN {PyStr("Name"), PyStr("1"), PyInt(1), NA}
    ELSE {PyInt(1), PyInt(2), NA}

\* The cells a column holds in the dataframes given to get_numerical_var_analysis
NumCellsOf(c) ==
    IF c = "Variable"
    THEN {PyStr("a"), PyStr("1"), NA}
    ELSE {PyInt(1), PyInt(2), NA}

NRows(d) == Len(d[Columns[1]])

\* The dataframe with the given cells in its two columns
DataFrameOf(v, x) == [c \in ColSet |-> IF c = Columns[1] THEN v ELSE x]

-----------------------------------------------------------------------------
(* pandas primitives used by the statistics engine *)

\* The dtype pandas gives a column: object as soon as a string is present,
\* float64 when integers sit next to NaN, int64 for integers alone
Dtype(s) ==
    IF \E i \in 1..Len(s) : s[i].t = "str" THEN "object"
    ELSE IF \E i \in 1..Len(s) : IsNA(s[i]) THEN "float64"
    ELSE IF s = <<>> THEN "object"
    ELSE "int64"

\* str(value) as the f-strings render a value taken from a column of that dtype
Render(v, dtype) ==
    IF v.t = "str" THEN v.s
    ELSE IF v.t = "nan" THEN "nan"
    ELSE IF dtype = "float64" THEN ToString(v.n) \o ".0"
    ELSE ToString(v.n)

\* series == value : NaN equals nothing, not even NaN
Eq(a, b) == ~IsNA(a) /\ ~IsNA(b) /\ a = b

\* Series.dropna()
DropNA(s) == SelectSeq(s, LAMBDA v : ~IsNA(v))

\* Series.isna().sum()
CountNA(s) == Len(SelectSeq(s, IsNA))

Occurs(v, s) == \E i \in 1..Len(s) : s[i] = v

\* Series.unique(): distinct values in first-seen order, NaN kept (once)
RECURSIVE UniqueFrom(_, _)
UniqueFrom(s, seen) ==
    IF s = <<>> THEN seen
    ELSE UniqueFrom(Tail(s), IF Occurs(Head(s), seen) THEN seen ELSE Append(seen, Head(s)))

Unique(s) == UniqueFrom(s, <<>>)

\* Row positions selected by a boolean mask, in order
RowsWhere(d, Mask(_)) == SelectSeq([i \in 1..NRows(d) |-> i], Mask)

\* a // b rounded to the nearest integer (no tie occurs for the row counts of the model)
RoundDiv(a, b) == (2 * a + b) \div (2 * b)

Digits2(k) == IF k < 10 THEN "0" \o ToString(k) ELSE ToString(k)

\* f"{x:.2f}" of the number h / 100, h >= 0
Fmt2(h) == ToString(h \div 100) \o "." \o Digits2(h % 100)

-----------------------------------------------------------------------------
(* The results dictionary: a Python dict of lists, keys in insertion order *)

EmptyDict == [keys |-> <<>>, val |-> <<>>]

HasKey(dict, k) == Occurs(k, dict.keys)

\* dict[k] = v
DictSet(dict, k, v) ==
    [keys |-> IF HasKey(dict, k) THEN dict.keys ELSE Append(dict.keys, k),
     val |-> [x \in DOMAIN dict.val \cup {k} |-> IF x = k THEN v ELSE dict.val[x]]]

\* dict[k].append(x)
DictAppend(dict, k, x) == [dict EXCEPT !.val[k] = Append(@, x)]

\* f"{group} {group_val}"
GroupKey(d, g, gv) == g \o " " \o Render(gv, Dtype(d[g]))

\* df[group].unique()
GroupValues(d, g) == Unique(d[g])

RECURSIVE InitGroupKeys(_, _, _, _)
InitGroupKeys(dict, d, g, gvs) ==
    IF gvs = <<>> THEN dict
    ELSE InitGroupKeys(DictSet(dict, GroupKey(d, g, Head(gvs)), <<>>), d, g, Tail(gvs))

\* _initialize_results_dict: returns (results, group_values)
InitializeResultsDict(d, g) ==
    LET base == DictSet(DictSet(EmptyDict, VAR_NAME, <<>>), ALL, <<>>)
    IN  IF g # None
        THEN [results |-> InitGroupKeys(base, d, g, GroupValues(d, g)),
              group_values |-> GroupValues(d, g)]
        ELSE [results |-> base, group_values |-> <<>>]

\* The columns the statistics are computed on
StatCols(g) == IF g # None THEN SelectSeq(Columns, LAMBDA c : c # g) ELSE Columns

\* DataFrame(results): needs all lists to have the same length
SameLengths(dict) ==
    \A k1, k2 \in DOMAIN dict.val : Len(dict.val[k1]) = Len(dict.val[k2])

ToDataFrame(dict) ==
    IF SameLengths(dict)
    THEN [status |-> "ok", columns |-> dict.keys, data |-> dict.val]
    ELSE [status |-> "ValueError", columns |-> <<>>, data |-> <<>>]

Raised(e) == [status |-> e, columns |-> <<>>, data |-> <<>>]

-----------------------------------------------------------------------------
(* get_categorical_var_analysis *)

\* df[col].dropna().unique()
Categories(d, col) == Unique(DropNA(d[col]))

\* df.shape[0] - df[col].isna().sum()
Total(d, col) == NRows(d) - CountNA(d[col])

\* Faulty variant of CategoryTotal: the rows are not filtered by the category
CategoryTotalUnfiltered(d, col, category) == Total(d, col)

\* df[df[col] == category].shape[0]
CategoryTotal(d, col, category) ==
    Len(RowsWhere(d, LAMBDA i : Eq(d[col][i], category)))

\* df.loc[df[group] == group_val, col].dropna().shape[0]
GroupTotal(d, g, gv, col) ==
    Len(RowsWhere(d, LAMBDA i : Eq(d[g][i], gv) /\ ~IsNA(d[col][i])))

\* Faulty variant of SubCategoryTotal: the filter forgets the group
SubCategoryTotalAnyGroup(d, g, gv, col, category) == CategoryTotal(d, col, category)

\* df[(df[group] == group_val) & (df[col] == category)].shape[0]
SubCategoryTotal(d, g, gv, col, category) ==
    Len(RowsWhere(d, LAMBDA i : Eq(d[g][i], gv) /\ Eq(d[col][i], category)))

\* f"{count} ({count/total:.2%})", total > 0
CountAndPercent(count, total) ==
    ToString(count) \o " (" \o Fmt2(RoundDiv(10000 * count, total)) \o "%)"

\* f"{col} : {category}"
CategoryLabel(d, col, category) == col \o " : " \o Render(category, Dtype(d[col]))

\* The loop over group_values for one (col, category); st = [results, err]
RECURSIVE CatGroupLoop(_, _, _, _, _, _)
CatGroupLoop(st, d, g, col, category, gvs) ==
    IF gvs = <<>> \/ st.err # "none" THEN st
    ELSE LET gv == Head(gvs)
             group_total == GroupTotal(d, g, gv, col)
             sub_category_total == SubCategoryTotal(d, g, gv, col, category)
         IN  IF group_total = 0
             THEN [st EXCEPT !.err = "ZeroDivisionError"]
             ELSE CatGroupLoop(
                      [st EXCEPT !.results =
                          DictAppend(@, GroupKey(d, g, gv),
                                     CountAndPercent(sub_category_total, group_total))],
                      d, g, col, category, Tail(gvs))

\* The loop over the categories of one column
RECURSIVE CatCategoryLoop(_, _, _, _, _, _)
CatCategoryLoop(st, d, g, col, cats, gvs) ==
    IF cats = <<>> \/ st.err # "none" THEN st
    ELSE LET category == Head(cats)
             category_total == CategoryTotal(d, col, category)
             r1 == DictAppend(st.results, VAR_NAME, CategoryLabel(d, col, category))
             r2 == DictAppend(r1, ALL, CountAndPercent(category_total, Total(d, col)))
             st2 == [st EXCEPT !.results = r2]
         IN  CatCategoryLoop(
                 IF g # None THEN CatGroupLoop(st2, d, g, col, category, gvs) ELSE st2,
                 d, g, col, Tail(cats), gvs)

\* The loop over the columns
RECURSIVE CatColLoop(_, _, _, _, _)
CatColLoop(st, d, g, cols, gvs) ==
    IF cols = <<>> \/ st.err # "none" THEN st
    ELSE CatColLoop(CatCategoryLoop(st, d, g, Head(cols), Categories(d, Head(cols)), gvs),
                    d, g, Tail(cols), gvs)

\* The body of get_categorical_var_analysis up to "return DataFrame(results)"
CategoricalAccumulate(d, g) ==
    LET init == InitializeResultsDict(d, g)
    IN  CatColLoop([results |-> init.results, err |-> "none"], d, g,
                   StatCols(g), init.group_values)

\* "return DataFrame(results)", unless an exception left the method before
Return(st) == IF st.err # "none" THEN Raised(st.err) ELSE ToDataFrame(st.results)

get_categorical_var_analysis(d, g) == Return(CategoricalAccumulate(d, g))

-----------------------------------------------------------------------------
(* get_numerical_column_stats and get_numerical_var_analysis *)

\* Strings float() accepts, with their value
NumericText == [s \in {"1"} |-> 1]

\* Whether Series.astype("float") accepts the cell
Convertible(v) == v.t # "str" \/ v.s \in DOMAIN NumericText

\* The cell as a number (NaN cells are dropped before this is used)
FloatOf(v) == IF v.t = "str" THEN NumericText[v.s] ELSE v.n

RECURSIVE SumSeq(_)
SumSeq(xs) == IF xs = <<>> THEN 0 ELSE Head(xs) + SumSeq(Tail(xs))

RECURSIVE MinSeq(_)
MinSeq(xs) ==
    IF Len(xs) = 1 THEN Head(xs)
    ELSE LET m == MinSeq(Tail(xs)) IN IF Head(xs) < m THEN Head(xs) ELSE m

RECURSIVE MaxSeq(_)
MaxSeq(xs) ==
    IF Len(xs) = 1 THEN Head(xs)
    ELSE LET m == MaxSeq(Tail(xs)) IN IF Head(xs) > m THEN Head(xs) ELSE m

\* round(100 * sqrt(a / b)) for a >= 0, b > 0: the largest h in lo..hi with
\* (h - 1/2)^2 <= 10000 * a / b, found by bisection
RECURSIVE SqrtHundredths(_, _, _, _)
SqrtHundredths(a, b, lo, hi) ==
    IF lo = hi THEN lo
    ELSE LET mid == (lo + hi + 1) \div 2
         IN  IF (2 * mid - 1) * (2 * mid - 1) * b <= 40000 * a
             THEN SqrtHundredths(a, b, mid, hi)
             ELSE SqrtHundredths(a, b, lo, mid - 1)

\* A float result, kept in hundredths (all that "{:.2f}" shows); nan when undefined
Float(h) == [nan |-> FALSE, h |-> h]
NaN == [nan |-> TRUE, h |-> 0]

\* f"{x:.2f}"
FmtFloat(x) == IF x.nan THEN "nan" ELSE Fmt2(x.h)

\* Series.mean(): NaN skipped, nan for no value
Mean(xs) == IF xs = <<>> THEN NaN ELSE Float(RoundDiv(100 * SumSeq(xs), Len(xs)))

\* Series.std(): sample standard deviation (ddof = 1), nan for fewer than two values
Std(xs) ==
    LET n == Len(xs)
        sum == SumSeq(xs)
        sum_sq == SumSeq([i \in 1..n |-> xs[i] * xs[i]])
    IN  IF n < 2 THEN NaN
        ELSE Float(SqrtHundredths(n * sum_sq - sum * sum, n * (n - 1),
                                  0, 100 * (MaxSeq(xs) - MinSeq(xs))))

\* Faulty variant of Min: the first value instead of the smallest
MinFirst(xs) == IF xs = <<>> THEN NaN ELSE Float(100 * Head(xs))

\* Series.min() and Series.max()
Min(xs) == IF xs = <<>> THEN NaN ELSE Float(100 * MinSeq(xs))
Max(xs) == IF xs = <<>> THEN NaN ELSE Float(100 * MaxSeq(xs))

\* get_numerical_column_stats on the cells of one column (of df or of df_group)
get_numerical_column_stats(cells) ==
    IF \E i \in 1..Len(cells) : ~Convertible(cells[i])
    THEN [err |-> "ValueError", mean |-> NaN, std |-> NaN, min |-> NaN, max |-> NaN]
    ELSE LET kept == DropNA(cells)
             numerical_data == [i \in 1..Len(kept) |-> FloatOf(kept[i])]
         IN  [err |-> "none", mean |-> Mean(numerical_data), std |-> Std(numerical_data),
              min |-> Min(numerical_data), max |-> Max(numerical_data)]

\* f"{mean:.2f} ({std:.2f}) [{min:.2f}, {max:.2f}]"
StatsText(st) ==
    FmtFloat(st.mean) \o " (" \o FmtFloat(st.std) \o ") [" \o FmtFloat(st.min)
        \o ", " \o FmtFloat(st.max) \o "]"

\* df[df[group] == group_val][col]
GroupCells(d, g, gv, col) ==
    LET rows == RowsWhere(d, LAMBDA i : Eq(d[g][i], gv))
    IN  [k \in 1..Len(rows) |-> d[col][rows[k]]]

\* The loop over group_values for one column
RECURSIVE NumGroupLoop(_, _, _, _, _)
NumGroupLoop(st, d, g, col, gvs) ==
    IF gvs = <<>> \/ st.err # "none" THEN st
    ELSE LET group_stats == get_numerical_column_stats(GroupCells(d, g, Head(gvs), col))
         IN  IF group_stats.err # "none"
             THEN [st EXCEPT !.err = group_stats.err]
             ELSE NumGroupLoop(
                      [st EXCEPT !.results =
                          DictAppend(@, GroupKey(d, g, Head(gvs)), StatsText(group_stats))],
                      d, g, col, Tail(gvs))

\* The loop over the columns
RECURSIVE NumColLoop(_, _, _, _, _)
NumColLoop(st, d, g, cols, gvs) ==
    IF cols = <<>> \/ st.err # "none" THEN st
    ELSE LET col == Head(cols)
             r1 == DictAppend(st.results, VAR_NAME, col)
             all_stats == get_numerical_column_stats(d[col])
             r2 == DictAppend(r1, ALL, StatsText(all_stats))
         IN  IF all_stats.err # "none"
             THEN [results |-> r1, err |-> all_stats.err]
             ELSE NumColLoop(
                      IF g # None
                      THEN NumGroupLoop([st EXCEPT !.results = r2], d, g, col, gvs)
                      ELSE [st EXCEPT !.results = r2],
                      d, g, Tail(cols), gvs)

\* The body of get_numerical_var_analysis up to "return DataFrame(results)"
NumericalAccumulate(d, g) ==
    LET init == InitializeResultsDict(d, g)
    IN  NumColLoop([results |-> init.results, err |-> "none"], d, g,
                   StatCols(g), init.group_values)

get_numerical_var_analysis(d, g) == Return(NumericalAccumulate(d, g))

\* The dataframe with its rows reordered: row i of the result is row p[i] of d
PermuteRows(d, p) == [c \in ColSet |-> [i \in 1..NRows(d) |-> d[c][p[i]]]]

\* The reordering that exchanges rows i and i + 1 of n rows; every permutation
\* of the rows is a composition of these
SwapRows(n, i) == [k \in 1..n |-> IF k = i THEN i + 1 ELSE IF k = i + 1 THEN i ELSE k]

-----------------------------------------------------------------------------
(* The store gateway: dataframes of text cells, the temporary csv file and
   the table as PostgreSQL stores it *)

GwMaxRows == 2

\* A cell: a string (its characters) or a missing value
Text(chars) == [na |-> FALSE, text |-> chars]
Missing == [na |-> TRUE, text |-> <<>>]

GwCells == {Text(<<"a">>), Text(<<" ">>), Text(<<"a", "!">>), Missing}

\* Type maps: column names in the order of the dictionary's keys (every
\* column is given the type "text")
TypeMaps == {<<"A">>, <<"B">>, <<"A", "B">>, <<"B", "A">>}

\* Dataframes a caller may hand over: columns (in order) and rows
GwColumnLists == {<<"A", "B">>, <<"A">>}

TableNames == {"t"}

NoTables == [n \in {} |-> 0]

NoCall ==
    [op |-> "none", table |-> "", outcome |-> "none", created |-> FALSE,
     written |-> FALSE, value |-> <<>>]

SeqToSet(q) == {q[i] : i \in 1..Len(q)}

\* df[types.keys()]: the columns of the type map, in its order
SelectColumns(d, types) ==
    [columns |-> types,
     rows |-> [i \in 1..Len(d.rows) |-> [c \in SeqToSet(types) |-> d.rows[i][c]]]]

\* One field as DataFrame.to_csv writes it with sep="!" and na_rep=" ":
\* a missing value becomes the single space, a string holding the separator
\* is wrapped in double quotes (csv.QUOTE_MINIMAL)
CsvField(cell) ==
    IF cell.na THEN <<" ">>
    ELSE IF \E i \in 1..Len(cell.text) : cell.text[i] = "!"
         THEN <<"\"">> \o cell.text \o <<"\"">>
         ELSE cell.text

\* One line of the file: the fields joined by "!"
RECURSIVE CsvLine(_, _)
CsvLine(row, cols) ==
    IF Len(cols) = 1 THEN CsvField(row[Head(cols)])
    ELSE CsvField(row[Head(cols)]) \o <<"!">> \o CsvLine(row, Tail(cols))

\* The data lines of the file "temp" (the header line is skipped by readline)
ToCsv(d) == [i \in 1..Len(d.rows) |-> CsvLine(d.rows[i], d.columns)]

\* The fields COPY ... FROM STDIN (text format, DELIMITER '!') cuts a line into
RECURSIVE SplitLine(_, _, _)
SplitLine(line, field, fields) ==
    IF line = <<>> THEN Append(fields, field)
    ELSE IF Head(line) = "!"
         THEN SplitLine(Tail(line), <<>>, Append(fields, field))
         ELSE SplitLine(Tail(line), Append(field, Head(line)), fields)

\* One field as COPY stores it with NULL ' '
CopyField(chars) == IF chars = <<" ">> THEN Missing ELSE Text(chars)

\* curs.copy_from(file, table, sep="!", null=" "): the rows it stores, or the
\* error PostgreSQL reports for a line with too many or too few fields
CopyFrom(lines, cols) ==
    LET fields == [i \in 1..Len(lines) |-> SplitLine(lines[i], <<>>, <<>>)]
    IN  IF \E i \in 1..Len(lines) : Len(fields[i]) # Len(cols)
        THEN [err |-> TRUE, rows |-> <<>>]
        ELSE [err |-> FALSE,
              rows |-> [i \in 1..Len(lines) |->
                           [c \in SeqToSet(cols) |->
                               CopyField(fields[i][CHOOSE k \in 1..Len(cols) : cols[k] = c])]]]

\* Faulty variant of CreateTable: the statement is never committed
CreateTableUncommitted(tables, name, types) == tables

\* The committed content of the schema after "CREATE TABLE ..." and commit
CreateTable(tables, name, types) ==
    [n \in DOMAIN tables \cup {name} |->
        IF n = name THEN [columns |-> types, rows |-> <<>>] ELSE tables[n]]

\* The committed content of the schema after COPY and commit
StoreRows(tables, name, rows) == [tables EXCEPT ![name].rows = rows]

\* Whether curs.execute / curs.copy_from raises psycopg2.Error: the server
\* rejects the statement, or the transaction is already aborted and refuses
\* every statement until rollback(), which DataManager never calls
ExecuteFails(t, rejected) == t = "failed" \/ rejected

\* The state of the connection's transaction after a statement ran on it:
\* psycopg2 opens a transaction for the first statement and keeps it open
\* until commit() or rollback(); an error leaves it aborted
AfterExecute(t, fails) == IF fails THEN "failed" ELSE "open"

\* ... after conn.commit()
AfterCommit(t) == "idle"

GwDataFrames ==
    UNION {{[columns |-> cols, rows |-> r] :
               r \in UNION {[1..n -> [SeqToSet(cols) -> GwCells]] : n \in 0..GwMaxRows}}
           : cols \in GwColumnLists}

-----------------------------------------------------------------------------
(* The statistics engine as a state machine: a caller holds a dataframe and
   a group argument and calls the static methods on them *)

NoTable == Raised("none")

GatewayIdle ==
    /\ txn = "idle"
    /\ db = NoTables
    /\ temp = FALSE
    /\ last = NoCall
    /\ src = NoTables

InitStats ==
    /\ \E n \in 0..MaxRows :
          \E v \in [1..n -> CellsOf(Columns[1])], x \in [1..n -> CellsOf(Columns[2])] :
             df = DataFrameOf(v, x)
    /\ group \in ColSet \cup {None}
    /\ call = "none"
    /\ results = EmptyDict
    /\ converted = FALSE
    /\ out = NoTable
    /\ prev = NoTable
    /\ GatewayIdle

\* DataManager._initialize_results_dict(df, group)
CallInitializeResultsDict ==
    /\ call = "none"
    /\ call' = "_initialize_results_dict"
    /\ results' = InitializeResultsDict(df, group).results
    /\ UNCHANGED <<df, group, converted, out, prev>>
    /\ UNCHANGED gwVars

\* DataManager.get_categorical_var_analysis(df, group)
CallCategorical ==
    /\ call = "none"
    /\ call' = "get_categorical_var_analysis"
    /\ LET st == CategoricalAccumulate(df, group)
       IN  /\ results' = st.results
           /\ converted' = (st.err = "none")
           /\ out' = Return(st)
    /\ UNCHANGED <<df, group, prev>>
    /\ UNCHANGED gwVars

\* DataManager.get_numerical_var_analysis(df, group)
CallNumerical ==
    /\ call = "none"
    /\ call' = "get_numerical_var_analysis"
    /\ LET st == NumericalAccumulate(df, group)
       IN  /\ results' = st.results
           /\ converted' = (st.err = "none")
           /\ out' = Return(st)
    /\ UNCHANGED <<df, group, prev>>
    /\ UNCHANGED gwVars

\* The caller exchanges two neighbouring rows of the dataframe and calls
\* get_numerical_var_analysis again; prev keeps the summary of the dataframe
\* the caller started from
CallNumericalPermuted ==
    /\ call \in {"get_numerical_var_analysis", "get_numerical_var_analysis (rows permuted)"}
    /\ \E i \in 1..(NRows(df) - 1) :
          LET permuted == PermuteRows(df, SwapRows(NRows(df), i))
              st == NumericalAccumulate(permuted, group)
          IN  /\ df' = permuted
              /\ results' = st.results
              /\ converted' = (st.err = "none")
              /\ out' = Return(st)
    /\ prev' = IF call = "get_numerical_var_analysis" THEN out ELSE prev
    /\ call' = "get_numerical_var_analysis (rows permuted)"
    /\ UNCHANGED group
    /\ UNCHANGED gwVars

NextStats ==
    \/ CallInitializeResultsDict
    \/ CallCategorical

SpecStats == InitStats /\ [][NextStats]_vars

NextNum ==
    \/ CallNumerical
    \/ CallNumericalPermuted

InitNum ==
    /\ \E n \in 0..MaxRows :
          \E v \in [1..n -> NumCellsOf(Columns[1])], x \in [1..n -> NumCellsOf(Columns[2])] :
             df = DataFrameOf(v, x)
    /\ group \in ColSet \cup {None}
    /\ call = "none"
    /\ results = EmptyDict
    /\ converted = FALSE
    /\ out = NoTable
    /\ prev = NoTable
    /\ GatewayIdle

SpecNum == InitNum /\ [][NextNum]_vars

-----------------------------------------------------------------------------
(* The store gateway as a state machine: one DataManager, its connection,
   the schema and the working directory; every action is one public call *)

Faults == {"none", "create", "read", "copy"}

\* "columns=None" of get_table
AllColumns == <<"*">>

Call(op, name, outcome, created, written, value) ==
    [op |-> op, table |-> name, outcome |-> outcome, created |-> created,
     written |-> written, value |-> value]

StatsIdle ==
    /\ df = DataFrameOf(<<>>, <<>>)
    /\ group = None
    /\ call = "none"
    /\ results = EmptyDict
    /\ converted = FALSE
    /\ out = NoTable
    /\ prev = NoTable

InitGateway == StatsIdle /\ GatewayIdle

\* create_and_fill_table(df, table_name, types); fault names the step the
\* environment makes fail: "create" the CREATE TABLE statement, "read"
\* open()/readline() on the temporary file, "copy" the COPY statement
create_and_fill_table(d, name, types, fault) ==
    LET create_fails == ExecuteFails(txn, name \in DOMAIN db \/ fault = "create")
        created == CreateTable(db, name, types)
        covered == SeqToSet(types) \subseteq SeqToSet(d.columns)
        lines == ToCsv(SelectColumns(d, types))
        copy == CopyFrom(lines, types)
        copy_fails == ExecuteFails(AfterCommit(txn), copy.err \/ fault = "copy")
    IN  IF create_fails
        THEN \* _create_table: except psycopg2.Error -> raise Exception(e.pgerror)
             /\ txn' = AfterExecute(txn, TRUE)
             /\ last' = Call("create_and_fill_table", name, "Exception", FALSE, FALSE, <<>>)
             /\ UNCHANGED <<db, temp, src>>
        ELSE IF ~covered
        THEN \* df[types.keys()] raises KeyError
             /\ txn' = AfterCommit(txn)
             /\ db' = created
             /\ last' = Call("create_and_fill_table", name, "KeyError", TRUE, FALSE, <<>>)
             /\ UNCHANGED <<temp, src>>
        ELSE IF fault = "read"
        THEN \* open() or readline() raises; no handler is in place yet
             /\ txn' = AfterCommit(txn)
             /\ db' = created
             /\ temp' = TRUE
             /\ last' = Call("create_and_fill_table", name, "OSError", TRUE, TRUE, <<>>)
             /\ UNCHANGED src
        ELSE IF copy_fails
        THEN \* except psycopg2.Error: os.remove(TEMP); raise Exception(e.pgerror)
             /\ txn' = AfterExecute(AfterCommit(txn), TRUE)
             /\ db' = created
             /\ temp' = FALSE
             /\ last' = Call("create_and_fill_table", name, "Exception", TRUE, TRUE, <<>>)
             /\ src' = IF fault = "none"
                       THEN [n \in DOMAIN src \cup {name} |->
                                IF n = name THEN [df |-> d, types |-> types] ELSE src[n]]
                       ELSE src
        ELSE \* copy_from, commit, os.remove(TEMP)
             /\ txn' = AfterCommit(AfterExecute(AfterCommit(txn), FALSE))
             /\ db' = StoreRows(created, name, copy.rows)
             /\ temp' = FALSE
             /\ last' = Call("create_and_fill_table", name, "ok", TRUE, TRUE, <<>>)
             /\ src' = [n \in DOMAIN src \cup {name} |->
                           IF n = name THEN [df |-> d, types |-> types] ELSE src[n]]

\* The dataframe is not read when _create_table raises: one stands for all then
CreateAndFillTable ==
    /\ \E name \in TableNames, types \in TypeMaps, fault \in Faults :
          \E d \in IF ExecuteFails(txn, name \in DOMAIN db \/ fault = "create")
                   THEN {[columns |-> <<"A">>, rows |-> <<>>]}
                   ELSE GwDataFrames :
             create_and_fill_table(d, name, types, fault)
    /\ UNCHANGED statsVars

\* get_column_names(table_name); rejected: the server refuses the catalog query
get_column_names(name, rejected) ==
    LET fails == ExecuteFails(txn, rejected)
    IN  /\ txn' = AfterExecute(txn, fails)
        /\ last' = IF fails
                   THEN Call("get_column_names", name, "Exception", FALSE, FALSE, <<>>)
                   ELSE Call("get_column_names", name, "ok", FALSE, FALSE,
                             IF name \in DOMAIN db THEN db[name].columns ELSE <<>>)
        /\ UNCHANGED <<db, temp, src>>

GetColumnNames ==
    /\ \E name \in TableNames, rejected \in BOOLEAN : get_column_names(name, rejected)
    /\ UNCHANGED statsVars

\* get_table(table_name, columns)
get_table(name, columns) ==
    LET unknown == \/ name \notin DOMAIN db
                   \/ /\ columns # AllColumns
                      /\ ~(SeqToSet(columns) \subseteq SeqToSet(db[name].columns))
        fails == ExecuteFails(txn, unknown)
        selected == IF columns = AllColumns THEN db[name].columns ELSE columns
    IN  /\ txn' = AfterExecute(txn, fails)
        /\ last' = IF fails
                   THEN Call("get_table", name, "Exception", FALSE, FALSE, <<>>)
                   ELSE Call("get_table", name, "ok", FALSE, FALSE,
                             SelectColumns(db[name], selected))
        /\ UNCHANGED <<db, temp, src>>

GetTable ==
    /\ \E name \in TableNames, columns \in TypeMaps \cup {AllColumns} : get_table(name, columns)
    /\ UNCHANGED statsVars

NextGateway ==
    \/ CreateAndFillTable
    \/ GetColumnNames
    \/ GetTable

SpecGateway == InitGateway /\ [][NextGateway]_vars

-----------------------------------------------------------------------------
(* Reading a summary back *)

\* The count an entry "count (percent%)" starts with, for a dataframe of n
\* rows; -1 when the entry is no count followed by its share of a total
CountOfEntry(entry, n) ==
    IF \E c \in 0..n : \E t \in 1..n : entry = CountAndPercent(c, t)
    THEN CHOOSE c \in 0..n : \E t \in 1..n : entry = CountAndPercent(c, t)
    ELSE -1

\* The (column, value) pairs of a dataframe: every non-missing value of every column
Pairs(d) == {<<c, d[c][i]>> : c \in ColSet, i \in 1..NRows(d)} \ (ColSet \X {NA})

\* The number of rows whose cell in column c is v
Occurrences(d, c, v) == Cardinality({i \in 1..NRows(d) : d[c][i] = v})

\* What the summary row of the pair is to show: its label and its count
RowOfPair(d, pair) ==
    <<pair[1] \o " : " \o Render(pair[2], Dtype(d[pair[1]])),
      Occurrences(d, pair[1], pair[2])>>

\* What row i of a categorical summary shows: its label and the count of "All"
RowOfSummary(d, table, i) ==
    <<table.data[VAR_NAME][i], CountOfEntry(table.data[ALL][i], NRows(d))>>

SummaryLength(table) == Len(table.data[VAR_NAME])

\* The distinct values of the group column
GroupSet(d, g) == {d[g][i] : i \in 1..NRows(d)}

RECURSIVE SumOfGroupCounts(_, _, _, _, _)
SumOfGroupCounts(d, g, table, i, gvs) ==
    IF gvs = {} THEN 0
    ELSE LET gv == CHOOSE x \in gvs : TRUE
         IN  CountOfEntry(table.data[GroupKey(d, g, gv)][i], NRows(d))
                 + SumOfGroupCounts(d, g, table, i, gvs \ {gv})

-----------------------------------------------------------------------------
(* Properties of get_categorical_var_analysis *)

\* C1: without a group, get_categorical_var_analysis returns a summary with
\* exactly one row per (column, distinct non-missing value) pair, labelled
\* "{column} : {value}", whose "All" entry starts with the number of rows of
\* the dataframe holding that value in that column.
C1_OneRowPerCategory ==
    (call = "get_categorical_var_analysis" /\ group = None) =>
        /\ out.status = "ok"
        /\ SummaryLength(out) = Cardinality(Pairs(df))
        /\ \A pair \in Pairs(df) :
              Cardinality({i \in 1..SummaryLength(out) :
                              RowOfSummary(df, out, i) = RowOfPair(df, pair)})
                  = Cardinality({q \in Pairs(df) : RowOfPair(df, q) = RowOfPair(df, pair)})

\* Witness of C1: an ungrouped summary of a dataframe with a missing cell, a
\* value that occurs twice and two columns with categories.
C1_Witness ==
    /\ call = "get_categorical_var_analysis"
    /\ group = None
    /\ out.status = "ok"
    /\ \E c \in ColSet : \E i \in 1..NRows(df) : IsNA(df[c][i])
    /\ \E pair \in Pairs(df) : Occurrences(df, pair[1], pair[2]) = 2
    /\ \A c \in ColSet : \E pair \in Pairs(df) : pair[1] = c

\* C2: with a grouping column that has no missing value, in every row of the
\* summary the counts under the per-group keys add up to the count under "All".
C2_GroupCountsSumToAll ==
    (/\ call = "get_categorical_var_analysis"
     /\ group # None
     /\ \A i \in 1..NRows(df) : ~IsNA(df[group][i])
     /\ out.status = "ok") =>
        \A i \in 1..SummaryLength(out) :
            SumOfGroupCounts(df, group, out, i, GroupSet(df, group))
                = CountOfEntry(out.data[ALL][i], NRows(df))

\* Witness of C2: a grouped summary with two groups and a category that
\* occurs in both of them.
C2_Witness ==
    /\ call = "get_categorical_var_analysis"
    /\ group # None
    /\ \A i \in 1..NRows(df) : ~IsNA(df[group][i])
    /\ out.status = "ok"
    /\ Cardinality(GroupSet(df, group)) = 2
    /\ \E i \in 1..SummaryLength(out) :
          /\ CountOfEntry(out.data[ALL][i], NRows(df)) = 2
          /\ \A gv \in GroupSet(df, group) :
                CountOfEntry(out.data[GroupKey(df, group, gv)][i], NRows(df)) = 1

\* C3: the results dictionary has one key per non-missing value of the
\* grouping column besides "Variable Name" and "All", and no key for the
\* missing marker.
C3_NoKeyForMissingGroup ==
    (call # "none" /\ group # None) =>
        DOMAIN results.val =
            {VAR_NAME, ALL} \cup {GroupKey(df, group, gv) : gv \in GroupSet(df, group) \ {NA}}

\* C9: when the total of a column or the total of a (group value, column)
\* pair is zero, get_categorical_var_analysis still completes: it does not
\* end in a division by zero.
C9_ZeroTotalHandled ==
    (/\ call = "get_categorical_var_analysis"
     /\ \E col \in SeqToSet(StatCols(group)) :
           \/ Total(df, col) = 0
           \/ /\ group # None
              /\ \E gv \in GroupSet(df, group) \ {NA} : GroupTotal(df, group, gv, col) = 0)
        => out.status # "ZeroDivisionError"

\* C10: when the results dictionary is handed to DataFrame(), all its lists
\* have the same length.
C10_EqualLengthsAtConversion ==
    converted => SameLengths(results)

-----------------------------------------------------------------------------
(* Properties of get_numerical_var_analysis *)

\* C8 as stated: the summary of the dataframe with its rows permuted equals
\* the summary of the dataframe, as a table: the same outcome, the same
\* columns in the same order and the same entries.
C8_PermutedSummaryEqual ==
    call = "get_numerical_var_analysis (rows permuted)" => out = prev

\* C8 (amended): the summary of the dataframe with its rows permuted has the
\* same outcome, the same rows, the same set of columns and the same entry in
\* every cell of every column as the summary of the dataframe; only the
\* order of the per-group columns may differ.
C8_PermutedSummarySameCells ==
    call = "get_numerical_var_analysis (rows permuted)" =>
        /\ out.status = prev.status
        /\ out.data = prev.data
        /\ {out.columns[i] : i \in 1..Len(out.columns)}
               = {prev.columns[i] : i \in 1..Len(prev.columns)}

\* Witness of C8: a grouped summary after a permutation that changed the
\* order of the rows, with two groups and two different numbers in a column.
C8_Witness ==
    /\ call = "get_numerical_var_analysis (rows permuted)"
    /\ group = "Variable"
    /\ out.status = "ok"
    /\ Len(out.columns) = 4
    /\ df["X"][1] = PyInt(2)
    /\ \E i \in 1..NRows(df) : df["X"][i] = PyInt(1)
    /\ out.columns # prev.columns

-----------------------------------------------------------------------------
(* Properties of the store gateway *)

\* C4: when create_and_fill_table fails after the file "temp" was written,
\* the file is gone when the error reaches the caller, and the error is the
\* Exception that carries the load error.
C4_TempRemovedOnLoadFailure ==
    (/\ last.op = "create_and_fill_table"
     /\ last.written
     /\ last.outcome # "ok") =>
        (~temp /\ last.outcome = "Exception")

\* C5: when create_and_fill_table created the table and then failed, the
\* table exists and has no row; and a table never holds part of the rows of
\* a dataframe: it is empty or holds as many rows as the dataframe given.
C5_CreatedButEmpty ==
    /\ (/\ last.op = "create_and_fill_table"
        /\ last.created
        /\ last.outcome # "ok") =>
           (last.table \in DOMAIN db /\ db[last.table].rows = <<>>)
    /\ \A n \in DOMAIN db :
           db[n].rows # <<>> =>
              (n \in DOMAIN src /\ Len(db[n].rows) = Len(src[n].df.rows))

\* Witness of C5: the load of a dataframe of two rows failed on the data
\* after the table was created.
C5_Witness ==
    /\ last.op = "create_and_fill_table"
    /\ last.created
    /\ last.written
    /\ last.outcome = "Exception"
    /\ last.table \in DOMAIN src
    /\ Len(src[last.table].df.rows) = 2
    /\ ~CopyFrom(<<CsvLine(src[last.table].df.rows[1], src[last.table].types)>>,
                 src[last.table].types).err

\* C6: between two public calls no transaction is open or aborted on the
\* connection.
C6_NoTransactionAcrossCalls ==
    txn = "idle"

\* C7: a table filled by create_and_fill_table from a dataframe holds the
\* cells of that dataframe (columns in the order of the type map), and
\* get_table gives them back.
C7_RoundTrip ==
    \A n \in DOMAIN src :
        LET given == SelectColumns(src[n].df, src[n].types)
        IN  /\ db[n] = given
            /\ (/\ last.op = "get_table"
                /\ last.table = n
                /\ last.outcome = "ok"
                /\ last.value.columns = src[n].types) => last.value = given

====
